---- MODULE Spec2Model ----
(***************************************************************************)
(* Preview engine of native-ui: the EngineOrchestrator on the UI thread,   *)
(* the decode worker thread it spawns, and the three crossbeam channels    *)
(* between them (native-ui/src/engine.rs).                                 *)
(*                                                                         *)
(* Times are integer multiples of the frame period 1/fps, so that          *)
(* (time_secs * fps).round() and frame / fps are exact.  An Option<T> is a *)
(* sequence of length at most one: None is <<>>, Some(x) is <<x>>.  An     *)
(* Instant is represented by its age, the value of Instant::elapsed().     *)
(* The locals of a thread that has returned, and the messages of a channel *)
(* whose receiver is dropped, no longer exist and hold their initial       *)
(* values.                                                                 *)
(***************************************************************************)
EXTENDS Integers, Sequences, FiniteSets, TLC

\* ------------------------------------------------------------------------
\* Bounds of the model
\* ------------------------------------------------------------------------

\* Commands (play / pause / seek) the UI issues per opened file.
MaxCmds == 2

\* Largest playback time, in ticks, the wall clock carries an anchor to.
MaxTime == 3

\* Largest seek target the UI asks for.
MaxSeek == 4

\* Pictures the parser decodes in one session, and sequence headers that
\* create a decoder.
MaxPictures == 3

MaxSequences == 2

\* ------------------------------------------------------------------------
\* Program constants and input data
\* ------------------------------------------------------------------------

\* channel::bounded::<DecodedFrame>(4)
FrameCap == 4

\* channel::bounded::<GpuInfoMsg>(1)
GpuInfoCap == 1

\* Frames per time unit (FileInfo.fps); the time unit is the frame period.
Fps == 1

None == <<>>

Some(x) == <<x>>

\* The file the UI opens: one I P B group, its packets stored in decode
\* order.
Files == {"clip"}

\* A file whose container states no duration: the probe yields 0 for it.
LiveFiles == {"live"}

\* A file that contains exactly one frame.
StillFiles == {"still"}

\* FileInfo.duration_secs
Duration(f) == IF f \in LiveFiles THEN 0 ELSE IF f \in StillFiles THEN 1 ELSE 3

\* The video packets of a file in the order next_video_packet() returns them.
Packets(f) ==
    IF f \in StillFiles
    THEN << [pts |-> 0, key |-> TRUE] >>
    ELSE << [pts |-> 0, key |-> TRUE], [pts |-> 2, key |-> FALSE],
            [pts |-> 1, key |-> FALSE] >>

\* The seek targets the UI asks for: before the start, inside, past the end.
SeekInputs == {-1, 1, MaxSeek}

\* Frames the decoder holds back for display reordering.
ReorderDepth == 2

VARIABLES
    \* EngineOrchestrator fields
    state, file_info, current_time_secs, playback_start_instant,
    playback_start_time_secs, frame_rx, cmd_tx, decode_thread, last_frame,
    gpu_info_rx,
    \* the UI thread: where it is, and the argument of the call it is in
    epc, open_arg,
    \* which picture the last update() uploaded to the preview bridge: the
    \* newest frame, the cached frame, black, the test or the error pattern
    bridge,
    \* channels
    frame_chan, cmd_chan, gpu_info_chan,
    \* decode worker: position, chosen loop, locals of the loop
    wpc, loop_kind, info, playing, frame_num, sent_first_frame,
    need_seek_frame, wframe, flush_frames,
    \* demuxer and decoder owned by the worker
    demux_pos, dec_pending,
    \* bookkeeping for the properties: commands sent / applied since the
    \* open, Seeks sent / applied since the open, GPU-info messages sent by
    \* the worker, whether the worker has met the end of the stream since it
    \* last applied Play
    cmds_sent, cmds_applied, seek_sent, seek_applied, gpu_info_sends,
    eos_since_play,
    \* NvDecSession with its CallbackState, the MappedFrame guards alive
    \* outside it and the bookkeeping of the session properties, as one
    \* record (its fields are named below)
    session

\* NvDecSession: the parser handle is held; CallbackState.decoder (0 is the
\* null handle), display_queue, last_error, frames_decoded and
\* frames_displayed.
parser == session.parser

decoder == session.decoder

display_queue == session.display_queue

last_error == session.last_error

frames_decoded == session.frames_decoded

frames_displayed == session.frames_displayed

\* The MappedFrame guards alive outside the session, the decoders created so
\* far, and whether an unmap was issued on a destroyed decoder.
guards == session.guards

decoders_created == session.decoders_created

unmap_on_destroyed == session.unmap_on_destroyed

\* CallbackState.width and height as one pair, and for each picture decoded
\* so far the decoder that decoded it.
resolution == session.resolution

decoded_by == session.decoded_by

\* What the last parse_data call returned, and whether it found an error of
\* an earlier call still recorded when it began.
parse_result == session.parse_result

stale_error == session.stale_error

\* The decoders created by cuvidCreateDecoder and not yet destroyed.
live_decoders == session.live_decoders

\* The decoded pictures the parser dropped at a discontinuity before it
\* displayed them.
forgotten == session.forgotten

\* How many steps of Drop have run: 0 while the session is alive.
drop_pc == session.drop_pc

\* The handles passed to cuvidDestroyVideoParser and cuvidDestroyDecoder, in
\* the order of the calls: << "parser", 0 >> or << "decoder", its number >>.
destroyed == session.destroyed

\* Who holds the callback_state mutex: "free", "session" or "callback".
lock == session.lock

\* The NvDecSession method that is running ("none" between calls) and the
\* block of it that runs next.
method == session.method
method_pc == session.method_pc

\* The parser callback that is running ("none" outside callbacks).
cb == session.cb

\* The number of the picture the parser displays next.
next_picture == frames_displayed + forgotten + 1

time_vars == << current_time_secs, playback_start_instant, playback_start_time_secs >>

handle_vars == << frame_rx, cmd_tx, decode_thread, gpu_info_rx >>

local_vars == << wpc, loop_kind, info, playing, frame_num, sent_first_frame,
                 need_seek_frame, wframe, flush_frames, demux_pos, dec_pending >>

worker_vars == << local_vars, cmds_applied, seek_applied, gpu_info_sends,
                  eos_since_play >>

engine_vars == << state, file_info, time_vars, handle_vars, last_frame, epc,
                  open_arg, bridge, cmds_sent, seek_sent >>

session_vars == << session >>

pipeline_vars == << state, file_info, current_time_secs, playback_start_instant,
                    playback_start_time_secs, frame_rx, cmd_tx, decode_thread,
                    last_frame, gpu_info_rx, epc, open_arg, bridge,
                    frame_chan, cmd_chan, gpu_info_chan, wpc, loop_kind, info, playing,
                    frame_num, sent_first_frame, need_seek_frame, wframe, flush_frames,
                    demux_pos, dec_pending, cmds_sent, cmds_applied, seek_sent,
                    seek_applied, gpu_info_sends, eos_since_play >>

vars == << pipeline_vars, session_vars >>

\* ------------------------------------------------------------------------
\* Helpers
\* ------------------------------------------------------------------------

\* f64::clamp
Clamp(t, lo, hi) == IF t < lo THEN lo ELSE IF t > hi THEN hi ELSE t

\* EngineOrchestrator::duration_secs
duration_secs == IF file_info = None THEN 0 ELSE Duration(file_info[1])

\* The worker thread exists and has not returned.
WorkerAlive == wpc # "done"

\* Sender::send on the unbounded command channel: the command is queued
\* unless the worker has dropped its receiver (the error is ignored).  The
\* id numbers the commands of one open in send order.
SendCmd(op, time) ==
    IF WorkerAlive
    THEN Append(cmd_chan, [op |-> op, time |-> time, id |-> cmds_sent + 1])
    ELSE cmd_chan

\* `if let Some(tx) = &self.cmd_tx { let _ = tx.send(..) }`
EngineSend(op, time) ==
    /\ cmd_chan' = IF cmd_tx THEN SendCmd(op, time) ELSE cmd_chan
    /\ cmds_sent' = IF cmd_tx /\ WorkerAlive THEN cmds_sent + 1 ELSE cmds_sent

\* The UI may issue one more command in this open.
CanSend == cmds_sent < MaxCmds \/ ~(cmd_tx /\ WorkerAlive)

\* (time_secs * fps).round() as u64
FrameOf(t) == t * Fps

\* current_frame as f64 / fps
PtsOf(n) == n \div Fps

\* (info.duration_secs * fps).ceil() as u64
total_frames(f) == Duration(f) * Fps

SetMin(S) == CHOOSE x \in S : \A y \in S : x <= y

RECURSIVE SortedSeq(_)
SortedSeq(S) == IF S = {} THEN <<>> ELSE <<SetMin(S)>> \o SortedSeq(S \ {SetMin(S)})

\* Demuxer::seek: the next packet is the last key frame at or before t
\* (the first packet when there is none).
DemuxSeek(f, t) ==
    LET ks == { i \in 1..Len(Packets(f)) : Packets(f)[i].key /\ Packets(f)[i].pts <= t }
    IN  IF ks = {} THEN 1 ELSE CHOOSE i \in ks : \A j \in ks : j <= i

\* NvDecoder::decode: the picture of the packet enters the decoder; a picture
\* leaves, in presentation order, once more than ReorderDepth are held.
DecodeOut(pend, pts) ==
    LET all == pend \cup {pts}
    IN  IF Cardinality(all) > ReorderDepth
        THEN [frame |-> Some(SetMin(all)), pend |-> all \ {SetMin(all)}]
        ELSE [frame |-> None, pend |-> all]

\* The locals of a worker at the head of decode_thread_main.
InitLocals(thread_info) ==
    [ wpc |-> "init", loop_kind |-> "none", info |-> thread_info,
      playing |-> FALSE, frame_num |-> 0,
      sent_first_frame |-> FALSE, need_seek_frame |-> FALSE, wframe |-> None,
      flush_frames |-> <<>>, demux_pos |-> 1, dec_pending |-> {} ]

\* No worker: the thread has returned, or none was spawned.
NoLocals == [InitLocals(None) EXCEPT !.wpc = "done"]

Locals ==
    [ wpc |-> wpc, loop_kind |-> loop_kind, info |-> info, playing |-> playing,
      frame_num |-> frame_num, sent_first_frame |-> sent_first_frame,
      need_seek_frame |-> need_seek_frame, wframe |-> wframe,
      flush_frames |-> flush_frames, demux_pos |-> demux_pos,
      dec_pending |-> dec_pending ]

SetLocals(l) ==
    /\ wpc' = l.wpc
    /\ loop_kind' = l.loop_kind
    /\ info' = l.info
    /\ playing' = l.playing
    /\ frame_num' = l.frame_num
    /\ sent_first_frame' = l.sent_first_frame
    /\ need_seek_frame' = l.need_seek_frame
    /\ wframe' = l.wframe
    /\ flush_frames' = l.flush_frames
    /\ demux_pos' = l.demux_pos
    /\ dec_pending' = l.dec_pending

\* ------------------------------------------------------------------------
\* Init: EngineOrchestrator::new, no worker
\* ------------------------------------------------------------------------

\* NvDecSession::new: the parser is created; the decoder is not, until the
\* first sequence header.
NewSession ==
    session = [ parser |-> TRUE, decoder |-> 0, display_queue |-> <<>>,
                last_error |-> FALSE, frames_decoded |-> 0, frames_displayed |-> 0,
                guards |-> {}, decoders_created |-> 0, unmap_on_destroyed |-> FALSE,
                resolution |-> << 0, 0 >>, decoded_by |-> <<>>,
                parse_result |-> "None", stale_error |-> FALSE,
                live_decoders |-> {}, forgotten |-> 0, drop_pc |-> 0,
                destroyed |-> <<>>, lock |-> "free", method |-> "none",
                method_pc |-> 0, cb |-> "none" ]

Init ==
    /\ NewSession
    /\ state = "Idle"
    /\ file_info = None
    /\ current_time_secs = 0
    /\ playback_start_instant = None
    /\ playback_start_time_secs = 0
    /\ frame_rx = FALSE
    /\ cmd_tx = FALSE
    /\ decode_thread = FALSE
    /\ last_frame = None
    /\ gpu_info_rx = FALSE
    /\ epc = "ready"
    /\ open_arg = None
    /\ bridge = "none"
    /\ frame_chan = <<>>
    /\ cmd_chan = <<>>
    /\ gpu_info_chan = <<>>
    /\ wpc = "done"
    /\ loop_kind = "none"
    /\ info = None
    /\ playing = FALSE
    /\ frame_num = 0
    /\ sent_first_frame = FALSE
    /\ need_seek_frame = FALSE
    /\ wframe = None
    /\ flush_frames = <<>>
    /\ demux_pos = 1
    /\ dec_pending = {}
    /\ cmds_sent = 0
    /\ cmds_applied = 0
    /\ seek_sent = 0
    /\ seek_applied = 0
    /\ gpu_info_sends = 0
    /\ eos_since_play = FALSE

\* ------------------------------------------------------------------------
\* Engine orchestrator (UI thread)
\* ------------------------------------------------------------------------

\* A play() that also starts the clock from Loading.
PlayFromLoading ==
    /\ epc = "ready"
    /\ CanSend
    /\ IF state = "Paused" \/ state = "Idle" \/ state = "Loading"
       THEN /\ state' = "Playing"
            /\ playback_start_instant' = Some(0)
            /\ playback_start_time_secs' = current_time_secs
            /\ EngineSend("Play", 0)
       ELSE UNCHANGED << state, playback_start_instant, playback_start_time_secs,
                         cmd_chan, cmds_sent >>
    /\ UNCHANGED << file_info, current_time_secs, handle_vars, last_frame, epc,
                    open_arg, bridge, frame_chan, gpu_info_chan, seek_sent,
                    worker_vars, session_vars >>

\* EngineOrchestrator::play
play ==
    /\ epc = "ready"
    /\ CanSend
    /\ IF state = "Paused" \/ state = "Idle"
       THEN /\ state' = "Playing"
            /\ playback_start_instant' = Some(0)
            /\ playback_start_time_secs' = current_time_secs
            /\ EngineSend("Play", 0)
       ELSE UNCHANGED << state, playback_start_instant, playback_start_time_secs,
                         cmd_chan, cmds_sent >>
    /\ UNCHANGED << file_info, current_time_secs, handle_vars, last_frame, epc,
                    open_arg, bridge, frame_chan, gpu_info_chan, seek_sent,
                    worker_vars, session_vars >>

\* A pause() that leaves the wall-clock anchor in place.
PauseKeepsAnchor ==
    /\ epc = "ready"
    /\ CanSend
    /\ IF state = "Playing"
       THEN /\ state' = "Paused"
            /\ EngineSend("Pause", 0)
       ELSE UNCHANGED << state, cmd_chan, cmds_sent >>
    /\ UNCHANGED << file_info, current_time_secs, playback_start_instant,
                    playback_start_time_secs, handle_vars, last_frame, epc,
                    open_arg, bridge, frame_chan, gpu_info_chan, seek_sent,
                    worker_vars, session_vars >>

\* EngineOrchestrator::pause
pause ==
    /\ epc = "ready"
    /\ CanSend
    /\ IF state = "Playing"
       THEN /\ state' = "Paused"
            /\ playback_start_instant' = None
            /\ EngineSend("Pause", 0)
       ELSE UNCHANGED << state, playback_start_instant, cmd_chan, cmds_sent >>
    /\ UNCHANGED << file_info, current_time_secs, playback_start_time_secs,
                    handle_vars, last_frame, epc, open_arg, bridge, frame_chan,
                    gpu_info_chan, seek_sent, worker_vars, session_vars >>

\* pause() and then play() with no other engine call and no time between
\* them: pause() from Playing drops the anchor and sends Pause, play() from
\* the resulting Paused anchors at (now, current_time) and sends Play.
pause_play ==
    /\ epc = "ready"
    /\ CanSend
    /\ state = "Playing"
    /\ state' = "Playing"
    /\ playback_start_instant' = Some(0)
    /\ playback_start_time_secs' = current_time_secs
    /\ IF cmd_tx /\ WorkerAlive
       THEN /\ cmd_chan' = cmd_chan \o << [op |-> "Pause", time |-> 0, id |-> cmds_sent + 1],
                                          [op |-> "Play", time |-> 0, id |-> cmds_sent + 2] >>
            /\ cmds_sent' = cmds_sent + 2
       ELSE UNCHANGED << cmd_chan, cmds_sent >>
    /\ UNCHANGED << file_info, current_time_secs, handle_vars, last_frame, epc,
                    open_arg, bridge, frame_chan, gpu_info_chan, seek_sent,
                    worker_vars, session_vars >>

\* EngineOrchestrator::toggle_play_pause
toggle_play_pause ==
    CASE state = "Playing" -> pause
      [] state \in {"Paused", "Idle"} -> play
      [] OTHER -> epc = "ready" /\ UNCHANGED vars

\* A seek() that resets the anchor in every state.
SeekAnchorAlways(t) ==
    /\ playback_start_instant' = Some(0)
    /\ playback_start_time_secs' = t

\* The wall-clock anchor seek() leaves behind: (now, t) while Playing.
SeekAnchor(t) ==
    IF state = "Playing"
    THEN /\ playback_start_instant' = Some(0)
         /\ playback_start_time_secs' = t
    ELSE UNCHANGED << playback_start_instant, playback_start_time_secs >>

\* EngineOrchestrator::seek
seek(time_secs) ==
    /\ epc = "ready"
    /\ CanSend
    /\ current_time_secs' = Clamp(time_secs, 0, duration_secs)
    /\ SeekAnchor(current_time_secs')
    /\ EngineSend("Seek", current_time_secs')
    /\ seek_sent' = IF cmd_tx /\ WorkerAlive THEN seek_sent + 1 ELSE seek_sent
    /\ UNCHANGED << state, file_info, handle_vars, last_frame, epc, open_arg, bridge,
                    frame_chan, gpu_info_chan, worker_vars, session_vars >>

\* A stop_pipeline that joins while still holding the frame receiver.
StopPipelineKeepsReceiver ==
    /\ EngineSend("Stop", 0)
    /\ cmd_tx' = FALSE
    /\ UNCHANGED << frame_rx, frame_chan >>

\* EngineOrchestrator::stop_pipeline up to the join: send Stop, drop the
\* command sender and the frame receiver (and with it the queued frames).
StopPipelineSignal ==
    /\ EngineSend("Stop", 0)
    /\ cmd_tx' = FALSE
    /\ frame_rx' = FALSE
    /\ frame_chan' = <<>>

\* A stop_pipeline that takes the handle and drops it without joining.
JoinSkipped == TRUE

\* handle.join() returns (or there is no handle to join).
JoinReady == ~decode_thread \/ wpc = "done"

\* The bookkeeping of an open ends with the join of its worker.
ForgetOpen ==
    /\ cmds_sent' = 0
    /\ seek_sent' = 0
    /\ cmds_applied' = 0
    /\ seek_applied' = 0
    /\ gpu_info_sends' = 0
    /\ eos_since_play' = FALSE

\* EngineOrchestrator::stop, up to the join inside stop_pipeline
stop_begin ==
    /\ epc = "ready"
    /\ StopPipelineSignal
    /\ epc' = "stop_join"
    /\ UNCHANGED << state, file_info, time_vars, decode_thread, gpu_info_rx,
                    last_frame, open_arg, bridge, gpu_info_chan, seek_sent,
                    worker_vars, session_vars >>

\* A stop() that keeps the cached frame.
StopFieldsKeepFrame ==
    /\ state' = "Idle"
    /\ file_info' = None
    /\ current_time_secs' = 0
    /\ playback_start_instant' = None
    /\ UNCHANGED last_frame

\* The fields stop() writes after stop_pipeline.
StopFields ==
    /\ state' = "Idle"
    /\ file_info' = None
    /\ current_time_secs' = 0
    /\ playback_start_instant' = None
    /\ last_frame' = None

\* EngineOrchestrator::stop, from the join on
stop_finish ==
    /\ epc = "stop_join"
    /\ JoinReady
    /\ decode_thread' = FALSE
    /\ StopFields
    /\ epc' = "ready"
    /\ ForgetOpen
    /\ UNCHANGED << playback_start_time_secs, frame_rx, cmd_tx, gpu_info_rx, open_arg,
                    bridge, frame_chan, cmd_chan, gpu_info_chan, local_vars, session_vars >>

\* impl Drop for EngineOrchestrator, up to the join
drop_begin ==
    /\ epc = "ready"
    /\ StopPipelineSignal
    /\ epc' = "drop_join"
    /\ UNCHANGED << state, file_info, time_vars, decode_thread, gpu_info_rx,
                    last_frame, open_arg, bridge, gpu_info_chan, seek_sent,
                    worker_vars, session_vars >>

\* impl Drop for EngineOrchestrator, from the join on
drop_finish ==
    /\ epc = "drop_join"
    /\ JoinReady
    /\ decode_thread' = FALSE
    /\ epc' = "dropped"
    /\ ForgetOpen
    /\ UNCHANGED << state, file_info, time_vars, frame_rx, cmd_tx, gpu_info_rx,
                    last_frame, open_arg, bridge, frame_chan, cmd_chan,
                    gpu_info_chan, local_vars, session_vars >>

\* EngineOrchestrator::open_file, up to the join inside stop_pipeline
open_file_begin(path) ==
    /\ epc = "ready"
    /\ StopPipelineSignal
    /\ epc' = "open_join"
    /\ open_arg' = Some(path)
    /\ UNCHANGED << state, file_info, time_vars, decode_thread, gpu_info_rx,
                    last_frame, bridge, gpu_info_chan, seek_sent, worker_vars, session_vars >>

\* The state open_file returns with: Paused behind a spawned worker; when
\* thread::Builder::spawn fails, `?` returns the error past the assignment.
OpenResultState(spawned) == IF spawned THEN "Paused" ELSE "Loading"

\* EngineOrchestrator::open_file, from the join on: reset the fields, make
\* the three channels, spawn the worker.
open_file_finish(spawned) ==
    /\ epc = "open_join"
    /\ JoinReady
    /\ state' = OpenResultState(spawned)
    /\ current_time_secs' = 0
    /\ playback_start_instant' = None
    /\ last_frame' = None
    /\ file_info' = open_arg
    /\ frame_chan' = <<>>
    /\ cmd_chan' = <<>>
    /\ gpu_info_chan' = <<>>
    /\ frame_rx' = TRUE
    /\ cmd_tx' = TRUE
    /\ gpu_info_rx' = TRUE
    /\ decode_thread' = spawned
    /\ SetLocals(IF spawned THEN InitLocals(open_arg) ELSE NoLocals)
    /\ ForgetOpen
    /\ epc' = "ready"
    /\ open_arg' = None
    /\ UNCHANGED << playback_start_time_secs, bridge, session_vars >>

\* The end-of-file test of update_playback_time.
ReachedEnd(t) == duration_secs > 0 /\ t >= duration_secs

\* EngineOrchestrator::update_playback_time, with the pause() it calls at the
\* end of the file: the fields after the call, and whether Pause was sent.
update_playback_time ==
    IF playback_start_instant # None
    THEN LET elapsed == playback_start_instant[1]
             t == playback_start_time_secs + elapsed
         IN  IF ReachedEnd(t)
             THEN [time |-> duration_secs, state |-> "Paused", instant |-> None,
                   pause |-> TRUE]
             ELSE [time |-> t, state |-> state, instant |-> playback_start_instant,
                   pause |-> FALSE]
    ELSE [time |-> current_time_secs, state |-> state,
          instant |-> playback_start_instant, pause |-> FALSE]

\* A drain loop that keeps the first frame it receives instead of the last.
NewestIsOldest(frames) == IF frames = <<>> THEN None ELSE Some(frames[1])

\* The frame poll_and_display keeps from the drain loop.
Newest(frames) == IF frames = <<>> THEN None ELSE Some(frames[Len(frames)])

\* EngineOrchestrator::poll_and_display.  The loop takes every queued frame;
\* it ends on Empty while the worker holds the sender and on Disconnected
\* once the worker has returned, where only the receiver is dropped.
poll_and_display ==
    LET newest_frame == IF frame_rx THEN Newest(frame_chan) ELSE None
        disconnected == frame_rx /\ ~WorkerAlive
    IN  /\ frame_chan' = IF frame_rx THEN <<>> ELSE frame_chan
        /\ frame_rx' = IF disconnected THEN FALSE ELSE frame_rx
        /\ IF newest_frame # None
           THEN /\ last_frame' = newest_frame
                /\ bridge' = "new"
           ELSE /\ last_frame' = last_frame
                /\ bridge' = IF last_frame # None THEN "cached" ELSE "black"

\* The GPU-info poll at the head of update(): the message is taken (its
\* contents go to the status bar) and the one-shot receiver is dropped.
PollGpuInfo ==
    IF gpu_info_rx /\ gpu_info_chan # <<>>
    THEN /\ gpu_info_chan' = <<>>
         /\ gpu_info_rx' = FALSE
    ELSE UNCHANGED << gpu_info_chan, gpu_info_rx >>

\* EngineOrchestrator::update
update ==
    /\ epc = "ready"
    /\ PollGpuInfo
    /\ LET pt == IF state = "Playing"
                 THEN update_playback_time
                 ELSE [time |-> current_time_secs, state |-> state,
                       instant |-> playback_start_instant, pause |-> FALSE]
       IN  /\ current_time_secs' = pt.time
           /\ playback_start_instant' = pt.instant
           /\ state' = pt.state
           /\ IF pt.pause
              THEN EngineSend("Pause", 0)
              ELSE UNCHANGED << cmd_chan, cmds_sent >>
    /\ CASE state \in {"Playing", "Paused", "Loading"} -> poll_and_display
         [] state = "Idle" ->
              /\ bridge' = "test"
              /\ UNCHANGED << frame_chan, frame_rx, last_frame >>
         [] OTHER ->
              /\ bridge' = "error"
              /\ UNCHANGED << frame_chan, frame_rx, last_frame >>
    /\ UNCHANGED << file_info, playback_start_time_secs, cmd_tx, decode_thread, epc,
                    open_arg, seek_sent, worker_vars, session_vars >>

\* Time passes: the anchor ages by one tick.
Tick ==
    /\ playback_start_instant # None
    /\ playback_start_time_secs + playback_start_instant[1] < MaxTime
    /\ playback_start_instant' = Some(playback_start_instant[1] + 1)
    /\ UNCHANGED << state, file_info, current_time_secs, playback_start_time_secs,
                    handle_vars, last_frame, epc, open_arg, bridge, cmds_sent,
                    seek_sent, frame_chan, cmd_chan, gpu_info_chan, worker_vars, session_vars >>

\* ------------------------------------------------------------------------
\* Decode worker thread
\* ------------------------------------------------------------------------

\* The loop decode_thread_main runs for an outcome of try_init_nvdec (hw) and
\* try_open_demuxer (demux).
ChooseLoop(hw, demux) ==
    IF demux THEN (IF hw THEN "nvdec" ELSE "real") ELSE "synthetic"

\* A decode_thread_main that reports the software path after every
\* negotiation, the hardware report included.
GpuInfoMsgsTwice(hw) ==
    IF hw
    THEN << [gpu_name |-> "GPU", nvdec_active |-> TRUE],
            [gpu_name |-> "None (software)", nvdec_active |-> FALSE] >>
    ELSE << [gpu_name |-> "None (software)", nvdec_active |-> FALSE] >>

\* The GpuInfoMsg values decode_thread_main sends for an outcome of
\* try_init_nvdec.
GpuInfoMsgs(hw) ==
    IF hw
    THEN << [gpu_name |-> "GPU", nvdec_active |-> TRUE] >>
    ELSE << [gpu_name |-> "None (software)", nvdec_active |-> FALSE] >>

\* Sender::send of msgs on the bounded GPU-info channel can proceed: there is
\* room, or the receiver is gone and send returns an error.
GpuInfoSendReady(msgs) ==
    Len(gpu_info_chan) + Len(msgs) <= GpuInfoCap \/ ~gpu_info_rx

\* The thread returns: its locals and its ends of the channels are dropped.
WorkerReturn ==
    /\ SetLocals(NoLocals)
    /\ cmd_chan' = <<>>
    /\ cmds_applied' = 0
    /\ seek_applied' = 0
    /\ eos_since_play' = FALSE

\* decode_thread_main up to the entry of the chosen loop; bind is the outcome
\* of cuda_ctx.bind_to_thread() at the head of nvdec_decode_loop.
decode_thread_main(hw, demux, bind) ==
    /\ wpc = "init"
    /\ GpuInfoSendReady(GpuInfoMsgs(hw))
    /\ gpu_info_chan' = IF gpu_info_rx
                        THEN gpu_info_chan \o GpuInfoMsgs(hw)
                        ELSE gpu_info_chan
    /\ gpu_info_sends' = gpu_info_sends + Len(GpuInfoMsgs(hw))
    /\ IF ChooseLoop(hw, demux) = "nvdec" /\ ~bind
       THEN WorkerReturn
       ELSE /\ SetLocals([Locals EXCEPT !.wpc = "loop",
                                        !.loop_kind = ChooseLoop(hw, demux)])
            /\ UNCHANGED << cmd_chan, cmds_applied, seek_applied, eos_since_play >>
    /\ UNCHANGED << frame_chan, engine_vars, session_vars >>

\* A try_recv that takes the newest queued command.
TryRecvNewest ==
    IF cmd_chan # <<>>
    THEN [res |-> "Ok", cmd |-> cmd_chan[Len(cmd_chan)],
          rest |-> SubSeq(cmd_chan, 1, Len(cmd_chan) - 1)]
    ELSE [res |-> IF cmd_tx THEN "Empty" ELSE "Disconnected",
          cmd |-> [op |-> "None", time |-> 0, id |-> 0], rest |-> cmd_chan]

\* Receiver::try_recv on the command channel: the oldest queued command,
\* Empty, or Disconnected once the engine has dropped its sender.
TryRecvCmd ==
    IF cmd_chan # <<>>
    THEN [res |-> "Ok", cmd |-> Head(cmd_chan), rest |-> Tail(cmd_chan)]
    ELSE [res |-> IF cmd_tx THEN "Empty" ELSE "Disconnected",
          cmd |-> [op |-> "None", time |-> 0, id |-> 0], rest |-> cmd_chan]

\* Command arms whose Seek arm repositions the demuxer and the decoder but
\* forgets to update frame_num.
AfterCmdSeekKeepsFrameNum(r) ==
    LET c == r.cmd
        isSeek == r.res = "Ok" /\ c.op = "Seek"
    IN  [ exit |-> r.res = "Disconnected" \/ (r.res = "Ok" /\ c.op = "Stop"),
          playing |-> IF r.res = "Ok" /\ c.op = "Play" THEN TRUE
                      ELSE IF r.res = "Ok" /\ c.op = "Pause" THEN FALSE
                      ELSE playing,
          frame_num |-> frame_num,
          need_seek_frame |-> IF isSeek THEN TRUE ELSE need_seek_frame,
          demux_pos |-> IF isSeek /\ loop_kind \in {"nvdec", "real"}
                        THEN DemuxSeek(info[1], c.time) ELSE demux_pos,
          dec_pending |-> IF isSeek /\ loop_kind = "nvdec" THEN {} ELSE dec_pending,
          cmds_applied |-> IF r.res = "Ok" THEN c.id ELSE cmds_applied,
          seek_applied |-> IF isSeek THEN seek_applied + 1 ELSE seek_applied ]

\* A command match whose Pause arm leaves `playing` as it is.
AfterCmdIgnoresPause(r) ==
    LET c == r.cmd
        isSeek == r.res = "Ok" /\ c.op = "Seek"
    IN  [ exit |-> r.res = "Disconnected" \/ (r.res = "Ok" /\ c.op = "Stop"),
          playing |-> IF r.res = "Ok" /\ c.op = "Play" THEN TRUE
                      ELSE playing,
          frame_num |-> IF isSeek THEN FrameOf(c.time) ELSE frame_num,
          need_seek_frame |-> IF isSeek THEN TRUE ELSE need_seek_frame,
          demux_pos |-> IF isSeek /\ loop_kind \in {"nvdec", "real"}
                        THEN DemuxSeek(info[1], c.time) ELSE demux_pos,
          dec_pending |-> IF isSeek /\ loop_kind = "nvdec" THEN {} ELSE dec_pending,
          cmds_applied |-> IF r.res = "Ok" THEN c.id ELSE cmds_applied,
          seek_applied |-> IF isSeek THEN seek_applied + 1 ELSE seek_applied ]

\* The locals of the loop after the arms of `match cmd_rx.try_recv()`, and
\* whether an arm returned.
AfterCmd(r) ==
    LET c == r.cmd
        isSeek == r.res = "Ok" /\ c.op = "Seek"
    IN  [ exit |-> r.res = "Disconnected" \/ (r.res = "Ok" /\ c.op = "Stop"),
          playing |-> IF r.res = "Ok" /\ c.op = "Play" THEN TRUE
                      ELSE IF r.res = "Ok" /\ c.op = "Pause" THEN FALSE
                      ELSE playing,
          frame_num |-> IF isSeek THEN FrameOf(c.time) ELSE frame_num,
          need_seek_frame |-> IF isSeek THEN TRUE ELSE need_seek_frame,
          demux_pos |-> IF isSeek /\ loop_kind \in {"nvdec", "real"}
                        THEN DemuxSeek(info[1], c.time) ELSE demux_pos,
          dec_pending |-> IF isSeek /\ loop_kind = "nvdec" THEN {} ELSE dec_pending,
          cmds_applied |-> IF r.res = "Ok" THEN c.id ELSE cmds_applied,
          seek_applied |-> IF isSeek THEN seek_applied + 1 ELSE seek_applied ]

\* The idle test `!playing && sent_first_frame && !need_seek_frame`.
Idle(a) == ~a.playing /\ sent_first_frame /\ ~a.need_seek_frame

\* The PTS nvdec_decode_loop gives the frame decode() returned for the
\* picture at picture_pts, while the packet it was called with has
\* presentation time packet_pts: `let pts_secs = packet.pts.0`.
NvdecFramePts(packet_pts, picture_pts) == packet_pts

\* FileInfo.resolution, in pixels.
Resolution(f) == [width |-> 2, height |-> 3]

\* A generator that allocates three bytes per pixel.
GenerateRgbFrame(width, height) == width * height * 3

\* generate_synthetic_frame: the length of the pixel vector it returns,
\* `vec![0u8; w * h * 4]`, every byte of which the fill loops leave in place.
generate_synthetic_frame(width, height) == width * height * 4

\* GpuRgbaBuffer::alloc: byte_size, the length of the vector the NV12 to
\* RGBA read-back returns.
GpuRgbaBufferSize(width, height) == width * height * 4

\* A DecodedFrame: its pts_secs, its width and height and the length of its
\* rgba_data, and the Seek the worker had last applied when it made the
\* frame.  The software and synthetic loops take the size from the FileInfo;
\* the hardware loop takes it from the decoded picture, which has the size
\* of the stream.
MkFrame(pts, seekid) ==
    LET r == Resolution(info[1])
    IN  [pts |-> pts, seek |-> seekid, width |-> r.width, height |-> r.height,
         len |-> IF loop_kind = "nvdec"
                 THEN GpuRgbaBufferSize(r.width, r.height)
                 ELSE generate_synthetic_frame(r.width, r.height)]

\* One pass of a worker loop after the command arms, to the point where it
\* sends a frame, flushes, or starts the next pass: the locals there.  conv
\* is the outcome of the NV12 -> RGBA conversion in the hardware loop.
LoopBody(a, conv) ==
    LET f == info[1]
        eos == a.demux_pos > Len(Packets(f))
        pkt == Packets(f)[a.demux_pos]
        l0 == [Locals EXCEPT !.playing = a.playing, !.frame_num = a.frame_num,
                             !.need_seek_frame = a.need_seek_frame,
                             !.demux_pos = a.demux_pos,
                             !.dec_pending = a.dec_pending]
    IN
    IF Idle(a) THEN l0
    ELSE IF loop_kind = "synthetic" THEN
        IF a.frame_num >= total_frames(f)
        THEN [l0 EXCEPT !.playing = FALSE]
        ELSE [l0 EXCEPT !.wpc = "send",
                        !.wframe = Some(MkFrame(PtsOf(a.frame_num), a.seek_applied))]
    ELSE IF loop_kind = "real" THEN
        IF eos
        THEN [l0 EXCEPT !.playing = FALSE]
        ELSE [l0 EXCEPT !.wpc = "send", !.demux_pos = a.demux_pos + 1,
                        !.wframe = Some(MkFrame(pkt.pts, a.seek_applied))]
    ELSE
        IF eos
        THEN \* decoder.flush(): every held picture, in presentation order
             IF a.dec_pending = {}
             THEN [l0 EXCEPT !.playing = FALSE]
             ELSE [l0 EXCEPT !.wpc = "flush", !.dec_pending = {},
                             !.flush_frames = SortedSeq(a.dec_pending)]
        ELSE LET d == DecodeOut(a.dec_pending, pkt.pts)
             IN  IF d.frame # None /\ conv
                 THEN [l0 EXCEPT !.wpc = "send", !.demux_pos = a.demux_pos + 1,
                                 !.dec_pending = d.pend,
                                 !.wframe = Some(MkFrame(NvdecFramePts(pkt.pts, d.frame[1]),
                                                         a.seek_applied))]
                 ELSE [l0 EXCEPT !.demux_pos = a.demux_pos + 1, !.dec_pending = d.pend]

\* The pass meets the end of the stream: `current_frame >= total_frames` in
\* the synthetic loop, no packet left in the demuxer in the other two.
ReachesEnd(a) ==
    /\ ~Idle(a)
    /\ IF loop_kind = "synthetic"
       THEN a.frame_num >= total_frames(info[1])
       ELSE a.demux_pos > Len(Packets(info[1]))

\* The command the pass takes from the channel is Play.
AppliesPlay(r) == r.res = "Ok" /\ r.cmd.op = "Play"

\* One pass of nvdec_decode_loop / real_decode_loop / synthetic_decode_loop
\* up to its frame_tx.send.
worker_loop(conv) ==
    /\ wpc = "loop"
    /\ LET r == TryRecvCmd
           a == AfterCmd(r)
       IN  IF a.exit
           THEN WorkerReturn
           ELSE /\ cmd_chan' = r.rest
                /\ cmds_applied' = a.cmds_applied
                /\ seek_applied' = a.seek_applied
                /\ eos_since_play' = IF ReachesEnd(a) THEN TRUE
                                     ELSE IF AppliesPlay(r) THEN FALSE
                                     ELSE eos_since_play
                /\ SetLocals(LoopBody(a, conv))
    /\ UNCHANGED << frame_chan, gpu_info_chan, gpu_info_sends, engine_vars, session_vars >>

\* A frame channel without a capacity: send always proceeds.
FrameSendAlways == TRUE

\* Sender::send on the bounded frame channel can proceed: there is room, or
\* the engine has dropped the receiver and send returns an error.
FrameSendReady == Len(frame_chan) < FrameCap \/ ~frame_rx

\* A send after which the frame counter stays where it was.
AfterSendKeepsFrameNum ==
    [Locals EXCEPT !.wpc = "loop", !.wframe = None,
                   !.sent_first_frame = TRUE,
                   !.need_seek_frame = FALSE]

\* The locals after a successful send in the main loops.
AfterSend ==
    [Locals EXCEPT !.wpc = "loop", !.wframe = None,
                   !.sent_first_frame = TRUE,
                   !.need_seek_frame = FALSE,
                   !.frame_num = IF need_seek_frame /\ ~playing
                                 THEN frame_num ELSE frame_num + 1]

\* frame_tx.send(decoded) of the main loops and the statements after it.
worker_send ==
    /\ wpc = "send"
    /\ FrameSendReady
    /\ IF frame_rx
       THEN /\ frame_chan' = Append(frame_chan, wframe[1])
            /\ SetLocals(AfterSend)
            /\ UNCHANGED << cmd_chan, cmds_applied, seek_applied, eos_since_play >>
       ELSE /\ WorkerReturn
            /\ UNCHANGED frame_chan
    /\ UNCHANGED << gpu_info_chan, gpu_info_sends, engine_vars, session_vars >>

\* One turn of the `for gpu_frame in &frames` loop after decoder.flush():
\* convert, release, send with the frame's own PTS; after the last frame
\* `playing = false`.
worker_flush_send(conv) ==
    /\ wpc = "flush"
    /\ conv => FrameSendReady
    /\ IF conv /\ ~frame_rx
       THEN /\ WorkerReturn
            /\ UNCHANGED frame_chan
       ELSE /\ SetLocals([Locals EXCEPT
                    !.flush_frames = Tail(flush_frames),
                    !.wpc = IF Tail(flush_frames) = <<>> THEN "loop" ELSE "flush",
                    !.playing = IF Tail(flush_frames) = <<>> THEN FALSE ELSE playing,
                    !.frame_num = IF conv THEN frame_num + 1 ELSE frame_num])
            /\ frame_chan' = IF conv
                             THEN Append(frame_chan, MkFrame(Head(flush_frames), seek_applied))
                             ELSE frame_chan
            /\ UNCHANGED << cmd_chan, cmds_applied, seek_applied, eos_since_play >>
    /\ UNCHANGED << gpu_info_chan, gpu_info_sends, engine_vars, session_vars >>

\* ------------------------------------------------------------------------
\* NVDEC decode session (crates/decoder/src/nvdec/session.rs)
\* ------------------------------------------------------------------------

\* CuvidDecodeCreateInfo.num_output_surfaces: the surfaces of a decoder that
\* can be mapped at the same time.
num_output_surfaces == 2

\* The descriptor display_picture_callback queues for the n-th picture.
DecodedFrameInfo(n) == [picture_index |-> n, timestamp |-> n]

\* The guard map_next_frame returns for a descriptor: it keeps the handle of
\* the decoder the surface was mapped from.
MappedFrame(frame_info) ==
    [decoder_handle |-> decoder, picture_index |-> frame_info.picture_index,
     timestamp |-> frame_info.timestamp,
     width |-> resolution[1], height |-> resolution[2]]

\* The descriptors of the pictures from..to in display order.
DisplayInfos(from, to) == [i \in 1..(to - from + 1) |-> DecodedFrameInfo(from + i - 1)]

\* The display rectangle of the k-th sequence header of the stream: every
\* header changes the resolution.
DisplayArea(k) == << 2 * k, 3 * k >>

\* display_picture_callback on the queue q with frames_displayed n: a null
\* disp_info (None) changes nothing, a descriptor is appended at the tail.
display_picture_callback(q, n, disp_info) ==
    IF disp_info = None
    THEN [display_queue |-> q, frames_displayed |-> n]
    ELSE [display_queue |-> Append(q, disp_info[1]), frames_displayed |-> n + 1]

\* The display callbacks the parser makes for the descriptors infos, one
\* after the other.
RECURSIVE DisplayEach(_, _, _)
DisplayEach(q, n, infos) ==
    IF infos = <<>>
    THEN [display_queue |-> q, frames_displayed |-> n]
    ELSE LET r == display_picture_callback(q, n, Some(Head(infos)))
         IN  DisplayEach(r.display_queue, r.frames_displayed, Tail(infos))

\* A parse_data that leaves last_error as it finds it.
KeepStaleError == last_error

\* last_error after the head of parse_data, `state.last_error = None`.
ClearStaleError == FALSE

\* What parse_data returns: parse_ok is the outcome of cuvidParseVideoData,
\* callback_error is last_error as the callbacks of this call left it.
ParseDataResult(parse_ok, callback_error) ==
    IF ~parse_ok THEN "Err" ELSE IF callback_error THEN "Err" ELSE "Ok"

\* A sequence_callback that creates the new decoder without destroying the
\* one it holds.
KeepExistingDecoder == live_decoders

\* sequence_callback, `if !state.decoder.is_null()`: cuvidDestroyDecoder on
\* the decoder held; the decoders alive after it.
DestroyExistingDecoder == live_decoders \ {decoder}

\* The destroy calls made so far, after one more cuvidDestroyDecoder on the
\* decoder held, if there is one.
DestroyDecoderCall == IF decoder = 0 THEN destroyed
    ELSE Append(destroyed, << "decoder", decoder >>)

\* parse_data on a packet that carries a sequence header: sequence_callback
\* stores the display size of the new format, destroys the decoder there is
\* and creates one for the new format; create_ok is the outcome of
\* cuvidCreateDecoder, parse_ok that of cuvidParseVideoData.
parse_sequence(create_ok, parse_ok) ==
    /\ parser
    /\ decoders_created < MaxSequences
    /\ LET error == ClearStaleError \/ ~create_ok
       IN  session' = [session EXCEPT
                !.stale_error = last_error,
                !.resolution = DisplayArea(decoders_created + 1),
                !.decoder = IF create_ok THEN decoders_created + 1 ELSE 0,
                !.live_decoders = IF create_ok
                                  THEN DestroyExistingDecoder \cup {decoders_created + 1}
                                  ELSE DestroyExistingDecoder,
                !.destroyed = DestroyDecoderCall,
                !.decoders_created = IF create_ok THEN decoders_created + 1
                                     ELSE decoders_created,
                !.last_error = error,
                !.parse_result = ParseDataResult(parse_ok, error)]
    /\ UNCHANGED pipeline_vars

\* parse_data on a packet that carries a picture: decode_picture_callback
\* hands it to the decoder (decode_ok is the outcome of cuvidDecodePicture),
\* then the parser calls display_picture_callback for the next shown
\* pictures that are ready in presentation order.
parse_picture(decode_ok, shown, parse_ok) ==
    /\ parser
    /\ frames_decoded < MaxPictures
    /\ IF decoder # 0 /\ decode_ok
       THEN /\ shown <= frames_decoded + 1 - (next_picture - 1)
            /\ session' = [session EXCEPT
                    !.stale_error = last_error,
                    !.frames_decoded = frames_decoded + 1,
                    !.decoded_by = Append(decoded_by, decoder),
                    !.display_queue =
                        DisplayEach(display_queue, frames_displayed,
                                    DisplayInfos(next_picture,
                                                 next_picture + shown - 1)).display_queue,
                    !.frames_displayed =
                        DisplayEach(display_queue, frames_displayed,
                                    DisplayInfos(next_picture,
                                                 next_picture + shown - 1)).frames_displayed,
                    !.last_error = ClearStaleError,
                    !.parse_result = ParseDataResult(parse_ok, ClearStaleError)]
       ELSE /\ shown = 0
            /\ session' = [session EXCEPT
                    !.stale_error = last_error,
                    !.last_error = TRUE,
                    !.parse_result = ParseDataResult(parse_ok, TRUE)]
    /\ UNCHANGED pipeline_vars

\* NvDecSession::flush: the end-of-stream packet makes the parser display
\* every picture it still holds back; callback_ok says whether the
\* callbacks it makes on the way succeed.  flush neither clears nor reads
\* last_error.
flush(callback_ok) ==
    /\ parser
    /\ LET all == DisplayEach(display_queue, frames_displayed,
                               DisplayInfos(next_picture, frames_decoded))
           end == display_picture_callback(all.display_queue, all.frames_displayed, None)
       IN  session' = [session EXCEPT
                !.last_error = last_error \/ ~callback_ok,
                !.display_queue = end.display_queue,
                !.frames_displayed = end.frames_displayed]
    /\ UNCHANGED pipeline_vars

\* A reset that sends the discontinuity packet and leaves the queue as it
\* is.
ResetKeepsQueue ==
    /\ parser
    /\ session' = [session EXCEPT
            !.last_error = FALSE,
            !.forgotten = frames_decoded - frames_displayed]
    /\ UNCHANGED pipeline_vars

\* NvDecSession::reset: the queue and last_error are cleared and the
\* discontinuity packet makes the parser forget the pictures it holds back;
\* the decoder, the output size and the counters stay.
reset ==
    /\ parser
    /\ session' = [session EXCEPT
            !.display_queue = <<>>,
            !.last_error = FALSE,
            !.forgotten = frames_decoded - frames_displayed]
    /\ UNCHANGED pipeline_vars

\* NvDecSession::has_decoded_frames.
has_decoded_frames == display_queue # <<>>

\* NvDecSession::is_decoder_ready.
is_decoder_ready == decoder # 0

\* What NvDecSession::map_next_frame returns in the current state: Ok(None)
\* on an empty queue, InvalidSession without a decoder, otherwise a guard or
\* DecodeFailed with the outcome map_ok of cuvidMapVideoFrame64.
MapNextFrameResult(map_ok) ==
    IF display_queue = <<>> THEN "None"
    ELSE IF ~is_decoder_ready THEN "InvalidSession"
    ELSE IF map_ok THEN "Some" ELSE "DecodeFailed"

\* A pop that takes the descriptor queued last.
pop_back ==
    [info |-> display_queue[Len(display_queue)],
     rest |-> SubSeq(display_queue, 1, Len(display_queue) - 1)]

\* state.display_queue.pop_front() on a queue that is not empty.
pop_front == [info |-> Head(display_queue), rest |-> Tail(display_queue)]

\* NvDecSession::map_next_frame with a frame queued, called by an owner that
\* keeps within the map limit: the descriptor is popped first; without a
\* decoder the call fails, otherwise map_ok is the outcome of
\* cuvidMapVideoFrame64.
map_next_frame(map_ok) ==
    /\ parser
    /\ display_queue # <<>>
    /\ Cardinality(guards) < num_output_surfaces
    /\ session' = [session EXCEPT
            !.display_queue = pop_front.rest,
            !.guards = IF MapNextFrameResult(map_ok) = "Some"
                       THEN guards \cup {MappedFrame(pop_front.info)}
                       ELSE guards]
    /\ UNCHANGED pipeline_vars

\* NvDecSession::map_all_frames with frames queued: map_next_frame for each
\* of them, keeping every guard; n_ok maps succeed before one fails.  On a
\* failure the guards made so far are dropped with the Vec, each unmapped on
\* the decoder it came from.
map_all_frames(n_ok) ==
    /\ parser
    /\ display_queue # <<>>
    /\ n_ok <= Len(display_queue)
    /\ decoder = 0 => n_ok = 0
    /\ session' = IF n_ok = Len(display_queue)
                  THEN [session EXCEPT
                           !.guards = guards \cup { MappedFrame(display_queue[i]) :
                                                    i \in 1..Len(display_queue) },
                           !.display_queue = <<>>]
                  ELSE [session EXCEPT
                           !.display_queue = SubSeq(display_queue, n_ok + 2,
                                                    Len(display_queue))]
    /\ UNCHANGED pipeline_vars

\* A Drop that destroys the decoder before the parser and the queue.
DecoderFirst == << "decoder", "parser", "lock", "queue", "unlock" >>

\* impl Drop for NvDecSession, the order of its blocks.
DropOrder == << "parser", "lock", "queue", "decoder", "unlock" >>

\* impl Drop for MappedFrame: the unmap is issued on the handle the guard
\* kept, whatever has happened to that decoder since.
drop_mapped_frame(g) ==
    /\ drop_pc \in {0, Len(DropOrder)}
    /\ g \in guards
    /\ session' = [session EXCEPT
            !.guards = guards \ {g},
            !.unmap_on_destroyed = unmap_on_destroyed \/ g.decoder_handle # decoder]
    /\ UNCHANGED pipeline_vars

\* impl Drop for NvDecSession, one block at a time: the parser is destroyed
\* and its handle nulled, the lock is taken, the queue is cleared, the
\* decoder is destroyed and its handle nulled, the lock guard goes out of
\* scope.
drop_session ==
    /\ drop_pc < Len(DropOrder)
    /\ drop_pc = 0 => (parser /\ method = "none")
    /\ DropOrder[drop_pc + 1] = "lock" => lock = "free"
    /\ LET block == DropOrder[drop_pc + 1]
       IN  session' =
             IF block = "lock"
             THEN [session EXCEPT !.drop_pc = drop_pc + 1, !.lock = "session"]
             ELSE IF block = "unlock"
             THEN [session EXCEPT !.drop_pc = drop_pc + 1, !.lock = "free"]
             ELSE IF block = "parser"
             THEN [session EXCEPT
                     !.drop_pc = drop_pc + 1,
                     !.parser = FALSE,
                     !.destroyed = IF parser
                                   THEN Append(destroyed, << "parser", 0 >>)
                                   ELSE destroyed]
             ELSE IF block = "queue"
             THEN [session EXCEPT
                     !.drop_pc = drop_pc + 1,
                     !.display_queue = <<>>]
             ELSE [session EXCEPT
                     !.drop_pc = drop_pc + 1,
                     !.live_decoders = live_decoders \ {decoder},
                     !.destroyed = DestroyDecoderCall,
                     !.decoder = 0]
    /\ UNCHANGED pipeline_vars

\* ------------------------------------------------------------------------
\* The callback_state mutex
\* ------------------------------------------------------------------------

\* parse_data, flush and reset with the lock held over the parser call.
LockHeldOverParser(o) ==
    IF o = "parse_data"
    THEN << "lock", "clear_error", "parser", "check_error", "unlock" >>
    ELSE IF o = "reset"
    THEN << "lock", "clear_queue", "parser", "unlock" >>
    ELSE << "lock", "parser", "unlock" >>

\* The blocks of parse_data, flush and reset in the order of the code:
\* "lock" is callback_state.lock(), "unlock" the end of the guard's scope,
\* "parser" the call of cuvidParseVideoData.
LockSteps(o) ==
    IF o = "parse_data"
    THEN << "lock", "clear_error", "unlock", "parser", "lock", "check_error",
            "unlock" >>
    ELSE IF o = "reset"
    THEN << "lock", "clear_queue", "unlock", "parser" >>
    ELSE << "parser" >>

\* The block the running method executes next.
Block == IF method = "none" THEN "none" ELSE LockSteps(method)[method_pc]

\* The session is inside cuvidParseVideoData.
InParser == Block = "parser"

\* The callbacks the parser makes for a packet of the running method: any
\* for data, display callbacks at end of stream, none at a discontinuity.
Callbacks(o) ==
    IF o = "parse_data" THEN {"sequence", "decode", "display"}
    ELSE IF o = "flush" THEN {"display"}
    ELSE {}

\* A method of the session is called.
session_call(o) ==
    /\ parser
    /\ drop_pc = 0
    /\ method = "none"
    /\ session' = [session EXCEPT !.method = o, !.method_pc = 1]
    /\ UNCHANGED pipeline_vars

\* The running method executes its next block; parse_ok is the outcome of
\* cuvidParseVideoData, whose failure returns at once.
session_step(parse_ok) ==
    /\ method # "none"
    /\ Block = "lock" => lock = "free"
    /\ Block = "parser" => cb = "none"
    /\ LET last == method_pc = Len(LockSteps(method)) \/ (Block = "parser" /\ ~parse_ok)
           s1 == [session EXCEPT
                     !.method = IF last THEN "none" ELSE method,
                     !.method_pc = IF last THEN 0 ELSE method_pc + 1]
       IN  session' =
             IF Block = "lock" THEN [s1 EXCEPT !.lock = "session"]
             ELSE IF Block = "unlock" THEN [s1 EXCEPT !.lock = "free"]
             ELSE IF Block = "clear_error"
             THEN [s1 EXCEPT !.stale_error = last_error,
                             !.last_error = ClearStaleError]
             ELSE IF Block = "clear_queue"
             THEN [s1 EXCEPT !.display_queue = <<>>, !.last_error = FALSE]
             ELSE IF Block = "check_error"
             THEN [s1 EXCEPT !.parse_result = ParseDataResult(TRUE, last_error)]
             ELSE IF method = "parse_data" /\ ~parse_ok
             THEN [s1 EXCEPT !.parse_result = ParseDataResult(FALSE, last_error)]
             ELSE IF method = "reset"
             THEN [s1 EXCEPT !.forgotten = frames_decoded - frames_displayed]
             ELSE s1
    /\ UNCHANGED pipeline_vars

\* The parser, inside cuvidParseVideoData, enters a callback.
callback_enter(kind) ==
    /\ InParser
    /\ cb = "none"
    /\ kind \in Callbacks(method)
    /\ kind = "sequence" => decoders_created < MaxSequences
    /\ kind = "decode" => frames_decoded < MaxPictures
    /\ kind = "display" => next_picture <= frames_decoded
    /\ session' = [session EXCEPT !.cb = kind]
    /\ UNCHANGED pipeline_vars

\* The callback's `state.lock()`.
callback_lock ==
    /\ cb # "none"
    /\ lock = "free"
    /\ session' = [session EXCEPT !.lock = "callback"]
    /\ UNCHANGED pipeline_vars

\* The body of the callback under the lock and its return; ok is the outcome
\* of cuvidCreateDecoder or cuvidDecodePicture.
callback_return(ok) ==
    /\ cb # "none"
    /\ lock = "callback"
    /\ LET s1 == [session EXCEPT !.cb = "none", !.lock = "free"]
       IN  session' =
             IF cb = "sequence"
             THEN [s1 EXCEPT
                     !.resolution = DisplayArea(decoders_created + 1),
                     !.decoder = IF ok THEN decoders_created + 1 ELSE 0,
                     !.live_decoders =
                         IF ok
                         THEN DestroyExistingDecoder \cup {decoders_created + 1}
                         ELSE DestroyExistingDecoder,
                     !.destroyed = DestroyDecoderCall,
                     !.decoders_created = IF ok THEN decoders_created + 1
                                          ELSE decoders_created,
                     !.last_error = last_error \/ ~ok]
             ELSE IF cb = "decode"
             THEN IF decoder # 0 /\ ok
                  THEN [s1 EXCEPT
                          !.frames_decoded = frames_decoded + 1,
                          !.decoded_by = Append(decoded_by, decoder)]
                  ELSE [s1 EXCEPT !.last_error = TRUE]
             ELSE LET r == display_picture_callback(display_queue,
                               frames_displayed,
                               Some(DisplayInfos(next_picture, next_picture)[1]))
                  IN  [s1 EXCEPT
                          !.display_queue = r.display_queue,
                          !.frames_displayed = r.frames_displayed]
    /\ UNCHANGED pipeline_vars

\* ------------------------------------------------------------------------
\* Specification
\* ------------------------------------------------------------------------

EngineNext ==
    \/ play
    \/ pause
    \/ toggle_play_pause
    \/ \E t \in SeekInputs : seek(t)
    \/ stop_begin
    \/ stop_finish
    \/ \E path \in Files : open_file_begin(path)
    \/ \E spawned \in BOOLEAN : open_file_finish(spawned)
    \/ drop_begin
    \/ drop_finish
    \/ update

WorkerNext ==
    \/ \E hw \in BOOLEAN, demux \in BOOLEAN, bind \in BOOLEAN :
          decode_thread_main(hw, demux, bind)
    \/ \E conv \in BOOLEAN : worker_loop(conv)
    \/ worker_send
    \/ \E conv \in BOOLEAN : worker_flush_send(conv)

Next == EngineNext \/ WorkerNext \/ Tick

Spec == Init /\ [][Next]_vars

\* The same program when the UI may also open a file without a duration.
NextLive == Next \/ \E path \in LiveFiles : open_file_begin(path)

SpecLive == Init /\ [][NextLive]_vars

\* The decode session under an owner that may call its methods in any order
\* and drop guards and session when it likes.
NextSession ==
    \/ \E create_ok \in BOOLEAN, parse_ok \in BOOLEAN : parse_sequence(create_ok, parse_ok)
    \/ \E decode_ok \in BOOLEAN, shown \in 0..MaxPictures, parse_ok \in BOOLEAN :
          parse_picture(decode_ok, shown, parse_ok)
    \/ \E callback_ok \in BOOLEAN : flush(callback_ok)
    \/ reset
    \/ \E map_ok \in BOOLEAN : map_next_frame(map_ok)
    \/ \E n_ok \in 0..MaxPictures : map_all_frames(n_ok)
    \/ \E g \in guards : drop_mapped_frame(g)
    \/ drop_session

SpecSession == Init /\ [][NextSession]_vars

\* The same program when the UI may also issue pause() and play() back to
\* back.
NextPausePlay == Next \/ pause_play

SpecPausePlay == Init /\ [][NextPausePlay]_vars

\* The owner of the channel ends drops the frame receiver and nothing else;
\* the frames queued in the channel go with it.
drop_frame_rx ==
    /\ epc = "ready"
    /\ frame_rx
    /\ frame_rx' = FALSE
    /\ frame_chan' = <<>>
    /\ UNCHANGED << state, file_info, time_vars, cmd_tx, decode_thread, gpu_info_rx,
                    last_frame, epc, open_arg, bridge, cmds_sent, seek_sent,
                    cmd_chan, gpu_info_chan, worker_vars, session_vars >>

\* The owner of the channel ends drops the command sender and nothing else;
\* the commands already queued stay readable.
drop_cmd_tx ==
    /\ epc = "ready"
    /\ cmd_tx
    /\ cmd_tx' = FALSE
    /\ UNCHANGED << state, file_info, time_vars, frame_rx, decode_thread, gpu_info_rx,
                    last_frame, epc, open_arg, bridge, cmds_sent, seek_sent,
                    frame_chan, cmd_chan, gpu_info_chan, worker_vars, session_vars >>

\* A UI that opens files, plays, pauses and polls, and may drop one end of a
\* channel on its own.
NextDropEnd ==
    \/ \E path \in Files : open_file_begin(path)
    \/ \E spawned \in BOOLEAN : open_file_finish(spawned)
    \/ play
    \/ pause
    \/ update
    \/ drop_frame_rx
    \/ drop_cmd_tx
    \/ WorkerNext

SpecDropEnd == Init /\ [][NextDropEnd]_vars

\* A UI that opens a one-frame file, plays, pauses and polls.
NextOneFrame ==
    \/ \E path \in StillFiles : open_file_begin(path)
    \/ \E spawned \in BOOLEAN : open_file_finish(spawned)
    \/ play
    \/ pause
    \/ update
    \/ Tick
    \/ WorkerNext

SpecOneFrame == Init /\ [][NextOneFrame]_vars

\* The session and the playback pipeline side by side, each run from the
\* initial state of the other: they share no state, so every behaviour of
\* either is covered.
NextOrder ==
    \/ (state = "Idle" /\ epc = "ready" /\ NextSession)
    \/ (NewSession /\ \/ \E path \in Files : open_file_begin(path)
                      \/ \E spawned \in BOOLEAN : open_file_finish(spawned)
                      \/ play
                      \/ pause
                      \/ update
                      \/ WorkerNext)

SpecOrder == Init /\ [][NextOrder]_vars

\* The session one block at a time, with the parser's callbacks between the
\* blocks of the method that called the parser.
NextLock ==
    \/ \E o \in {"parse_data", "flush", "reset"} : session_call(o)
    \/ \E parse_ok \in BOOLEAN : session_step(parse_ok)
    \/ \E kind \in {"sequence", "decode", "display"} : callback_enter(kind)
    \/ callback_lock
    \/ \E ok \in BOOLEAN : callback_return(ok)
    \/ drop_session

SpecLock == Init /\ [][NextLock]_vars

\* The worker when no frame conversion fails.
WorkerConverts ==
    \/ \E hw \in BOOLEAN, demux \in BOOLEAN, bind \in BOOLEAN :
          decode_thread_main(hw, demux, bind)
    \/ worker_loop(TRUE)
    \/ worker_send
    \/ worker_flush_send(TRUE)

\* A UI that opens a file, plays it and seeks in it; its update() runs once
\* per UI frame.
NextSeek ==
    \/ \E path \in Files : open_file_begin(path)
    \/ \E spawned \in BOOLEAN : open_file_finish(spawned)
    \/ play
    \/ \E t \in SeekInputs : seek(t)
    \/ update
    \/ WorkerConverts

\* The worker thread is scheduled as long as it has a step to take, and the
\* UI keeps calling update().
SpecSeek ==
    Init /\ [][NextSeek]_vars /\ WF_vars(WorkerConverts) /\ WF_vars(update)

\* ------------------------------------------------------------------------
\* Properties
\* ------------------------------------------------------------------------

\* The engine is inside stop_pipeline, waiting in handle.join().
Joining == epc \in {"stop_join", "open_join", "drop_join"}

\* C1: whenever no engine call is in progress, that is after every
\* open_file call has returned and after any later update(), the engine is
\* not in Loading: an open_file ends in Paused with file_info set, or in
\* Error.
C1_OpenNeverLeavesLoading ==
    epc = "ready" => state # "Loading"

\* C2: an update() that finds the frame channel disconnected while the
\* engine still holds the handle of a worker that returned on its own (the
\* step drops the frame receiver) leaves the engine in Error.
C2_DisconnectBecomesError ==
    [][(update /\ decode_thread /\ frame_rx /\ ~frame_rx') => state' = "Error"]_vars

\* The most frames one pass of a loop can leave to send: the frames
\* decoder.flush() returns, or the one frame of a main-loop send.
PassFrames == ReorderDepth + 1

\* How far the worker is from returning once stop_pipeline has sent Stop and
\* dropped its ends of the channels: one pass of the loop per queued
\* command, plus the sends left in the current pass.
StopDistance ==
    IF wpc = "done" THEN 0
    ELSE 1 + Len(cmd_chan) * (PassFrames + 1)
           + (CASE wpc = "init" -> 1
                [] wpc = "send" -> 1
                [] wpc = "flush" -> Len(flush_frames)
                [] OTHER -> 0)

\* The worker's next step can be taken: a send finds room or a dropped
\* receiver, and a pass of the loop finds a command or a disconnected
\* command channel rather than going back to the idle sleep.
WorkerCanProceed ==
    /\ wpc = "init" => \A hw \in BOOLEAN : GpuInfoSendReady(GpuInfoMsgs(hw))
    /\ wpc = "loop" => TryRecvCmd.res # "Empty"
    /\ wpc \in {"send", "flush"} => FrameSendReady

\* C3: while the engine waits in the join of stop_pipeline (from stop(),
\* open_file() or Drop) and the worker has not returned, the worker is
\* blocked neither in a send nor in the idle sleep, every step it takes
\* brings it closer to returning, and its distance from returning is bounded
\* by the number of queued commands: the worker returns and the join
\* completes within a bounded number of worker loop iterations.
C3_StopPipelineTerminates ==
    /\ [](Joining /\ WorkerAlive =>
            /\ WorkerCanProceed
            /\ StopDistance <= 1 + (MaxCmds + 2) * (PassFrames + 1) + ReorderDepth)
    /\ [][(Joining /\ WorkerNext) => StopDistance' < StopDistance]_vars

\* C3 witness: the engine waits in the join while the worker, with a frame
\* to send and commands queued ahead of Stop, has not yet seen the Stop.
C3_Witness ==
    /\ Joining
    /\ wpc = "send"
    /\ Len(cmd_chan) >= 2
    /\ cmd_chan[Len(cmd_chan)].op = "Stop"

\* C4: when stop() returns the engine is Idle, with no file info, time 0, no
\* wall-clock anchor, no cached frame, no command sender, no frame receiver
\* and no worker thread handle, and its worker has returned.
C4_StopLeavesIdle ==
    [][stop_finish =>
          /\ state' = "Idle"
          /\ file_info' = None
          /\ current_time_secs' = 0
          /\ playback_start_instant' = None
          /\ last_frame' = None
          /\ ~cmd_tx'
          /\ ~frame_rx'
          /\ ~decode_thread'
          /\ ~WorkerAlive']_vars

\* C4 witness: stop() has returned on an engine that had displayed a frame
\* of an open file.
C4_Witness ==
    /\ epc = "ready"
    /\ state = "Idle"
    /\ bridge = "new"
    /\ file_info = None
    /\ last_frame = None
    /\ ~decode_thread

\* C5: seek(t) leaves current_time at t clamped to [0, duration] and the
\* engine state unchanged, queues a Seek with the clamped time when a worker
\* holds the command receiver, and resets the wall-clock anchor to
\* (now, clamped t) exactly when the engine is Playing.
C5_SeekClampsAndAnchors ==
    [][\A t \in SeekInputs : seek(t) =>
          /\ current_time_secs' >= 0
          /\ current_time_secs' <= duration_secs
          /\ (t >= 0 /\ t <= duration_secs) => current_time_secs' = t
          /\ t < 0 => current_time_secs' = 0
          /\ t > duration_secs => current_time_secs' = duration_secs
          /\ state' = state
          /\ (cmd_tx /\ WorkerAlive) =>
                /\ Len(cmd_chan') = Len(cmd_chan) + 1
                /\ SubSeq(cmd_chan', 1, Len(cmd_chan)) = cmd_chan
                /\ cmd_chan'[Len(cmd_chan')].op = "Seek"
                /\ cmd_chan'[Len(cmd_chan')].time = current_time_secs'
          /\ state = "Playing" =>
                /\ playback_start_instant' = Some(0)
                /\ playback_start_time_secs' = current_time_secs'
          /\ state # "Playing" =>
                UNCHANGED << playback_start_instant, playback_start_time_secs >>]_vars

\* C5 witness: a Playing engine with a worker has just sought to a time
\* inside the file: the anchor is (now, 1) and the Seek is queued.
C5_Witness ==
    /\ state = "Playing"
    /\ WorkerAlive
    /\ current_time_secs = 1
    /\ playback_start_instant = Some(0)
    /\ playback_start_time_secs = 1
    /\ cmd_chan # <<>>
    /\ cmd_chan[Len(cmd_chan)] = [op |-> "Seek", time |-> 1, id |-> cmds_sent]

\* The worker appends one frame to the frame channel.
FrameSent ==
    /\ Len(frame_chan') = Len(frame_chan) + 1
    /\ WorkerNext

\* C6: a frame the worker sends has a PTS no smaller than the frame queued
\* before it, when both were made with no Seek applied between them.
C6_PtsNonDecreasing ==
    [][(FrameSent /\ frame_chan # <<>>
          /\ frame_chan'[Len(frame_chan')].seek = frame_chan[Len(frame_chan)].seek)
        => frame_chan'[Len(frame_chan')].pts >= frame_chan[Len(frame_chan)].pts]_vars

\* C7: a frame update() takes from the channel and displays as new was made
\* by the worker after it applied every Seek the engine has sent.
C7_DisplayedFrameIsPostSeek ==
    [][(update /\ bridge' = "new" /\ frame_chan # <<>>)
        => last_frame'[1].seek = seek_sent]_vars

\* C8: a worker that has left the negotiation of decode_thread_main, on any
\* of its outcomes, has sent exactly one GPU-info message; one that has not
\* has sent none, and its send finds room in the channel or a dropped
\* receiver whatever the outcome of the negotiation.
C8_GpuInfoExactlyOnce ==
    /\ (decode_thread /\ wpc # "init") => gpu_info_sends = 1
    /\ wpc = "init" =>
          /\ gpu_info_sends = 0
          /\ \A hw \in BOOLEAN : GpuInfoSendReady(GpuInfoMsgs(hw))
    /\ Len(gpu_info_chan) <= GpuInfoCap

\* C8 witness: the worker returned from a failed CUDA bind after its one
\* message, which the engine has not polled yet.
C8_Witness ==
    /\ decode_thread
    /\ wpc = "done"
    /\ epc = "ready"
    /\ gpu_info_sends = 1
    /\ Len(gpu_info_chan) = 1

\* C9: the frame channel holds at most 4 frames; a worker step changes the
\* queue only by appending one frame behind the queued ones, and only when
\* there is room.
C9_FrameChannelBounded ==
    /\ [](Len(frame_chan) <= FrameCap)
    /\ [][(frame_chan' # frame_chan /\ WorkerNext) =>
            /\ Len(frame_chan) < FrameCap
            /\ Len(frame_chan') = Len(frame_chan) + 1
            /\ SubSeq(frame_chan', 1, Len(frame_chan)) = frame_chan]_vars

\* C9 witness: the channel is full and the worker waits in send with the
\* next frame.
C9_Witness ==
    /\ Len(frame_chan) = FrameCap
    /\ frame_rx
    /\ wpc = "send"
    /\ wframe # None

\* C10: while the worker has not returned, the commands it has applied are
\* the first cmds_applied the engine sent, and the queue holds the others in
\* send order: none is lost, duplicated or overtaken.
C10_CommandsInSendOrder ==
    WorkerAlive =>
        /\ cmds_applied + Len(cmd_chan) = cmds_sent
        /\ \A i \in 1..Len(cmd_chan) : cmd_chan[i].id = cmds_applied + i

\* C10 witness: commands sent during the negotiation; the worker, now in its
\* loop, has applied the first and the next is queued.
C10_Witness ==
    /\ wpc = "loop"
    /\ cmds_applied = 1
    /\ Len(cmd_chan) = 2
    /\ playing

\* The worker waits in a send on the full frame channel, and the engine,
\* between calls with a file open, will drain the channel in its next
\* update().
BlockedUntilDrain ==
    /\ wpc \in {"send", "flush"}
    /\ frame_rx
    /\ Len(frame_chan) = FrameCap
    /\ epc = "ready"
    /\ state \in {"Playing", "Paused", "Loading"}

\* C11: while Seeks (or other commands) are queued for a running worker it
\* is never stuck: it can take its next step, or it waits in a send that the
\* next update() releases.  Every pass of its loop takes the oldest queued
\* command; a Seek taken sets frame_num to the frame of the Seek's time, and
\* when that Seek is the last command the engine sent, its time is the
\* engine's clamped target: current_time, or the anchor time while the
\* clock runs.
C11_SeekBurstApplied ==
    /\ [](WorkerAlive /\ cmd_chan # <<>> => WorkerCanProceed \/ BlockedUntilDrain)
    /\ [][(wpc = "loop" /\ cmd_chan # <<>> /\ Head(cmd_chan).op = "Seek"
           /\ (\E conv \in BOOLEAN : worker_loop(conv))) =>
            /\ cmd_chan' = Tail(cmd_chan)
            /\ seek_applied' = seek_applied + 1
            /\ frame_num' = Head(cmd_chan).time * Fps
            /\ need_seek_frame' \/ wpc' = "send" \/ wpc' = "flush"
            /\ (Len(cmd_chan) = 1 /\ epc = "ready") =>
                  /\ seek_applied' = seek_sent
                  /\ Head(cmd_chan).time =
                        (IF state = "Playing" THEN playback_start_time_secs
                                               ELSE current_time_secs)]_vars

\* C11 witness: a burst of two seeks on a paused engine; the worker has
\* applied both, sent the frame of the last one and idles at its target.
C11_Witness ==
    /\ state = "Paused"
    /\ wpc = "loop"
    /\ seek_sent = 2
    /\ seek_applied = 2
    /\ cmd_chan = <<>>
    /\ current_time_secs = 1
    /\ frame_num = 1
    /\ ~need_seek_frame
    /\ frame_chan # <<>>
    /\ frame_chan[Len(frame_chan)].seek = 2

\* C12: an update() in Playing, Paused or Loading is one step that waits for
\* nothing (update's only guard is that no other engine call is running).
\* It empties the frame channel; if frames were queued it displays and caches
\* the last one sent; otherwise it keeps the cache and redisplays it, or
\* displays black when the cache is empty.  The cache is emptied only by
\* open_file and stop, so an empty cache means no frame since the open.
C12_UpdateKeepsNewestFrame ==
    /\ [][(update /\ state \in {"Playing", "Paused", "Loading"}) =>
            /\ frame_rx => frame_chan' = <<>>
            /\ (frame_rx /\ frame_chan # <<>>) =>
                  /\ last_frame' = Some(frame_chan[Len(frame_chan)])
                  /\ bridge' = "new"
            /\ (~frame_rx \/ frame_chan = <<>>) =>
                  /\ last_frame' = last_frame
                  /\ bridge' = IF last_frame # None THEN "cached" ELSE "black"]_vars
    /\ [][(last_frame # None /\ last_frame' = None) =>
            \/ stop_finish
            \/ \E spawned \in BOOLEAN : open_file_finish(spawned)]_vars

\* C12 witness: an update() has just drained the channel and shows the frame
\* of PTS 2, the third frame the worker sent while playing.
C12_Witness ==
    /\ state = "Playing"
    /\ epc = "ready"
    /\ bridge = "new"
    /\ frame_chan = <<>>
    /\ last_frame # None
    /\ last_frame[1].pts = 2

\* The command channel after the engine has sent op through the sender it
\* holds; without a sender, or with the worker gone, nothing is queued.
QueuedAfter(op) ==
    IF cmd_tx /\ WorkerAlive
    THEN cmd_chan' = Append(cmd_chan, [op |-> op, time |-> 0, id |-> cmds_sent + 1])
    ELSE cmd_chan' = cmd_chan

\* C13: play() acts only in Paused or Idle: the engine becomes Playing, the
\* anchor is (now, current_time), current_time and the other fields stay,
\* and Play goes out on the command sender.  pause() acts only in Playing:
\* the engine becomes Paused, the anchor instant is dropped and Pause goes
\* out.  In every other state the call changes nothing and sends nothing.
C13_PlayPauseTransitions ==
    /\ [][play =>
            IF state \in {"Paused", "Idle"}
            THEN /\ state' = "Playing"
                 /\ playback_start_instant' = Some(0)
                 /\ playback_start_time_secs' = current_time_secs
                 /\ QueuedAfter("Play")
                 /\ UNCHANGED << file_info, current_time_secs, handle_vars,
                                 last_frame >>
            ELSE UNCHANGED vars]_vars
    /\ [][pause =>
            IF state = "Playing"
            THEN /\ state' = "Paused"
                 /\ playback_start_instant' = None
                 /\ QueuedAfter("Pause")
                 /\ UNCHANGED << file_info, current_time_secs,
                                 playback_start_time_secs, handle_vars,
                                 last_frame >>
            ELSE UNCHANGED vars]_vars

\* C13 witness: play() from Paused at position 1 has just anchored the clock
\* there and queued Play behind the Seek.
C13_Witness ==
    /\ state = "Playing"
    /\ playback_start_instant = Some(0)
    /\ playback_start_time_secs = 1
    /\ current_time_secs = 1
    /\ cmd_chan # <<>>
    /\ cmd_chan[Len(cmd_chan)].op = "Play"

\* C14: an update() while Playing with a file open computes
\* t = anchor_time + (now - anchor_instant); below the file's duration
\* current_time becomes t and the engine stays Playing; from the duration on,
\* current_time becomes the duration, the engine is Paused, the anchor is
\* dropped and Pause is sent to the worker.
C14_ClockClampsAtDuration ==
    [][(update /\ state = "Playing" /\ file_info # None
               /\ playback_start_instant # None) =>
          LET t == playback_start_time_secs + playback_start_instant[1]
          IN  IF t >= duration_secs
              THEN /\ current_time_secs' = duration_secs
                   /\ state' = "Paused"
                   /\ playback_start_instant' = None
                   /\ QueuedAfter("Pause")
              ELSE /\ current_time_secs' = t
                   /\ state' = "Playing"
                   /\ cmd_chan' = cmd_chan]_vars

\* The position the next update() computes from the anchor while Playing.
AnchoredPosition == playback_start_time_secs + playback_start_instant[1]

\* C15: pause() followed at once by play() from Playing leaves the engine
\* Playing with current_time unchanged, queues Pause and then Play for the
\* worker, and leaves the position computed from the anchor unchanged, so
\* that every later update() computes what it would have computed without
\* the pair.
C15_PausePlayIsNoOp ==
    [][(pause_play /\ playback_start_instant # None) =>
          /\ state' = "Playing"
          /\ current_time_secs' = current_time_secs
          /\ (cmd_tx /\ WorkerAlive) =>
                /\ Len(cmd_chan') = Len(cmd_chan) + 2
                /\ cmd_chan'[Len(cmd_chan')].op = "Play"
          /\ AnchoredPosition' = AnchoredPosition]_vars

\* C16: when the hardware decoder cannot be created for the file opened
\* (try_init_nvdec returns UnsupportedCodec or HwDecoderInit), the engine
\* is in Error and no worker thread runs.
C16_UnsupportedCodecIsError ==
    [][(wpc = "init"
        /\ \E demux \in BOOLEAN, bind \in BOOLEAN : decode_thread_main(FALSE, demux, bind)) =>
          /\ state' = "Error"
          /\ ~WorkerAlive']_vars

\* C17: with neither the hardware decoder nor a demuxer, decode_thread_main
\* enters the synthetic loop and the worker keeps running.  In that loop the
\* worker is never stuck other than in a send on the full frame channel,
\* which the next update() releases.  The pass that leaves the worker
\* playing (Play applied, position before the end of the file) goes on to
\* send a frame, and every frame the loop sends carries the FileInfo's width
\* and height and width * height * 4 bytes.
C17_SyntheticLoopProducesFrames ==
    /\ [](loop_kind = "synthetic" /\ WorkerAlive =>
            WorkerCanProceed \/ BlockedUntilDrain \/ (wpc = "loop" /\ cmd_chan = <<>>))
    /\ [][(wpc = "init"
           /\ \E bind \in BOOLEAN : decode_thread_main(FALSE, FALSE, bind)) =>
            /\ WorkerAlive'
            /\ loop_kind' = "synthetic"]_vars
    /\ [][(loop_kind = "synthetic" /\ wpc = "loop"
           /\ (\E conv \in BOOLEAN : worker_loop(conv)) /\ playing') =>
            /\ wpc' = "send"
            /\ wframe' # None
            /\ wframe'[1].pts = frame_num']_vars
    /\ [][(loop_kind = "synthetic" /\ FrameSent) =>
            LET fr == frame_chan'[Len(frame_chan')]
                r == Resolution(file_info[1])
            IN  /\ fr.width = r.width
                /\ fr.height = r.height
                /\ fr.len = r.width * r.height * 4]_vars

\* C17 witness: the synthetic loop, playing, has queued the frames of
\* positions 0 and 1, each of the file's size.
C17_Witness ==
    /\ loop_kind = "synthetic"
    /\ playing
    /\ Len(frame_chan) = 2
    /\ frame_chan[2].pts = 1
    /\ frame_chan[2].len = 24
    /\ frame_chan[2].width = 2

\* The GpuFrames the hardware loop holds and has not yet released.  A frame
\* from decode() is converted and released within the pass that obtained it,
\* before the send; of the frames decoder.flush() returned, each step of the
\* flush loop converts and releases the first, so those still listed are
\* the unreleased ones.
HeldGpuFrames == IF wpc = "flush" THEN flush_frames ELSE <<>>

\* C18: every GpuFrame the hardware loop obtained is released before the
\* worker is done with it: a step of the worker releases the frame it
\* handles, and a step on which the worker returns leaves no other held
\* frame behind unreleased.
C18_GpuFramesReleased ==
    [][(HeldGpuFrames # <<>> /\ WorkerNext /\ wpc' = "done") =>
          Tail(HeldGpuFrames) = <<>>]_vars

\* C19: the guards alive at any time are no more than the output surfaces
\* the decoder was created with.
C19_MappedWithinLimit == Cardinality(guards) <= num_output_surfaces

\* C20: every guard alive was mapped from the decoder that is alive now, and
\* no unmap has been issued on a decoder that was destroyed.
C20_GuardsOutliveNoDecoder ==
    /\ \A g \in guards : g.decoder_handle = decoder
    /\ ~unmap_on_destroyed

\* C21: across a change of sequence every frame is delivered from the
\* decoder, and with the display size, of the sequence its picture was
\* decoded under: a descriptor queued before the new sequence header is
\* never mapped from the re-created decoder or given the new width and
\* height.
C21_FramesKeepTheirSequence ==
    \A g \in guards :
        /\ g.decoder_handle = decoded_by[g.picture_index]
        /\ << g.width, g.height >> = DisplayArea(decoded_by[g.picture_index])

\* C22: until the first sequence callback has created a decoder,
\* is_decoder_ready() is false and every call to map_next_frame returns
\* InvalidSession.
C22_EarlyMapIsInvalidSession ==
    decoders_created = 0 =>
        /\ ~is_decoder_ready
        /\ \A map_ok \in BOOLEAN : MapNextFrameResult(map_ok) = "InvalidSession"

\* The pass the worker makes from here finds no command and no
\* disconnection, sleeps 10 ms and continues with nothing changed.
WorkerIdles ==
    /\ wpc = "loop"
    /\ TryRecvCmd.res = "Empty"
    /\ Idle(AfterCmd(TryRecvCmd))

\* C23: in every worker state, once the UI side has dropped the frame
\* receiver alone or the command sender alone, the worker is on its way to
\* returning as it is after Stop: it is never left idling, where without a
\* further command it stays for ever.
C23_DroppedEndStopsWorker ==
    (WorkerAlive /\ (~frame_rx \/ ~cmd_tx)) => ~WorkerIdles

\* C24: for a file of exactly one frame the worker sends one frame in all
\* across open and the plays that follow: a frame enters the frame channel
\* only while none of this open is queued or cached by the engine; and
\* every pass of the loop made after that frame was sent ends not playing.
C24_OneFrameFileSendsOneFrame ==
    [][/\ Len(frame_chan') > Len(frame_chan) =>
            (frame_chan = <<>> /\ last_frame = None)
       /\ (wpc = "loop" /\ wpc' = "loop" /\ frame_rx
              /\ (frame_chan # <<>> \/ last_frame # None)
              /\ (\E conv \in BOOLEAN : worker_loop(conv))) => ~playing']_vars

\* C24 witness: the one-frame file was opened and played, the Play has been
\* applied, the one frame is queued and the synthetic worker is back at the
\* head of its loop, not playing.
C24_Witness ==
    /\ state = "Playing"
    /\ info = Some("still")
    /\ loop_kind = "synthetic"
    /\ wpc = "loop"
    /\ cmds_sent = 1
    /\ cmds_applied = 1
    /\ cmd_chan = <<>>
    /\ ~playing
    /\ frame_num = 1
    /\ Len(frame_chan) = 1

\* C25: at most one worker thread exists per engine: a worker runs only
\* while the engine holds its handle; open_file spawns the new worker only
\* after the previous one has returned; stop and Drop return with no worker
\* running and no handle held.
C25_AtMostOneWorker ==
    /\ [](WorkerAlive => decode_thread)
    /\ [][/\ (wpc' = "init" /\ \E spawned \in BOOLEAN : open_file_finish(spawned))
             => ~WorkerAlive
          /\ (epc \in {"stop_join", "drop_join"} /\ epc' # epc)
             => (~WorkerAlive' /\ ~decode_thread')]_vars

\* C25 witness: open_file was called on an engine whose worker was running;
\* the engine waits in the join, still holding the handle, and the old
\* worker has just returned.
C25_Witness ==
    /\ epc = "open_join"
    /\ decode_thread
    /\ ~WorkerAlive
    /\ state = "Playing"

\* C26: at the start of each pass of its loop the worker applies every
\* command pending on the command channel at that moment: a pass that goes
\* on to read a packet or to send a frame leaves none of them queued.
C26_PassDrainsCommands ==
    [][(wpc = "loop" /\ (\E conv \in BOOLEAN : worker_loop(conv)) /\ wpc' # "done")
           => cmd_chan' = <<>>]_vars

\* C27: the worker enters nvdec_decode_loop exactly when the GpuInfoMsg it
\* has just sent says nvdec_active; whenever it enters real_decode_loop or
\* synthetic_decode_loop that message is "None (software)" with
\* nvdec_active false.
C27_LoopMatchesGpuReport ==
    [][(wpc = "init" /\ wpc' = "loop" /\ gpu_info_rx /\ gpu_info_chan' # gpu_info_chan) =>
          LET msg == gpu_info_chan'[Len(gpu_info_chan')]
          IN  /\ loop_kind' = "nvdec" <=> msg.nvdec_active
              /\ loop_kind' \in {"real", "synthetic"} =>
                     (msg.gpu_name = "None (software)" /\ ~msg.nvdec_active)]_vars

\* C28: while the worker is not playing and has published a frame, a pass
\* that finds no command reads no packet and sends no frame when no seek
\* frame is pending; when one is pending, the pass works towards publishing
\* it (it reads a packet or goes to send a frame), so that a Seek applied
\* while paused publishes a frame before the worker idles again.
C28_IdleUntilSeekFrame ==
    (wpc = "loop" /\ TryRecvCmd.res = "Empty" /\ ~playing /\ sent_first_frame) =>
        \A conv \in BOOLEAN :
            LET l == LoopBody(AfterCmd(TryRecvCmd), conv)
            IN  IF need_seek_frame THEN l # Locals ELSE l = Locals

\* C29: once the worker has reached the end of the stream, has flushed the
\* decoder and is not playing, a pass that finds no command idles: it
\* sleeps without reading the demuxer or flushing again, until a Play or a
\* Seek is applied.
C29_IdleAfterEndOfStream ==
    (/\ wpc = "loop"
     /\ loop_kind \in {"nvdec", "real"}
     /\ demux_pos > Len(Packets(info[1]))
     /\ dec_pending = {}
     /\ ~playing
     /\ TryRecvCmd.res = "Empty") => Idle(AfterCmd(TryRecvCmd))

\* C30: parse_data returns an error exactly when the parser call fails or a
\* callback of that same call (sequence or decode-picture) recorded an
\* error; an error recorded before the call is cleared first and is not
\* reported for this packet.
C30_ParseDataReportsOwnErrors ==
    [][/\ \A create_ok \in BOOLEAN, parse_ok \in BOOLEAN :
              parse_sequence(create_ok, parse_ok) =>
                  (parse_result' = "Err" <=> (~parse_ok \/ ~create_ok))
       /\ \A decode_ok \in BOOLEAN, shown \in 0..MaxPictures, parse_ok \in BOOLEAN :
              parse_picture(decode_ok, shown, parse_ok) =>
                  (parse_result' = "Err" <=> (~parse_ok \/ ~decode_ok \/ decoder = 0))]_vars

\* C30 witness: a parse_data call that began with the error of an earlier
\* call still recorded has returned Ok, and no error is recorded.
C30_Witness ==
    /\ stale_error
    /\ parse_result = "Ok"
    /\ ~last_error
    /\ decoder # 0

\* C31: at every moment the session has at most one live decoder, the one
\* whose handle it holds: each sequence callback destroys the existing
\* decoder before it creates the new one; when the creation fails the
\* session holds the null handle, no decoder is alive and the error is
\* recorded in the callback state.
C31_AtMostOneDecoder ==
    /\ [](/\ Cardinality(live_decoders) <= 1
          /\ live_decoders = IF decoder = 0 THEN {} ELSE {decoder})
    /\ [][\A parse_ok \in BOOLEAN :
              parse_sequence(FALSE, parse_ok) =>
                  (decoder' = 0 /\ live_decoders' = {} /\ last_error'
                   /\ parse_result' = "Err")]_vars

\* C31 witness: a second sequence header has replaced the first decoder by
\* the second.
C31_Witness ==
    /\ decoders_created = 2
    /\ decoder = 2
    /\ live_decoders = {2}

\* C32: frames leave the session in exactly the order the display callback
\* queued them, and the worker sends them in that order.  Descriptors are
\* appended at the tail, one per counted callback; the null callback that
\* ends a flush with nothing held back changes neither queue nor counters;
\* a guard is made from a descriptor queued before every descriptor still
\* in the queue; the worker sends the frames of a flush head first, each
\* before it takes the next.
C32_FramesLeaveInDisplayOrder ==
    /\ [](/\ \A i \in 1..Len(display_queue) : \A j \in 1..Len(display_queue) :
                 i < j => display_queue[i].picture_index < display_queue[j].picture_index
          /\ \A i \in 1..Len(flush_frames) : \A j \in 1..Len(flush_frames) :
                 i < j => flush_frames[i] < flush_frames[j])
    /\ [][/\ Len(display_queue') > Len(display_queue) =>
                /\ SubSeq(display_queue', 1, Len(display_queue)) = display_queue
                /\ frames_displayed' - frames_displayed
                       = Len(display_queue') - Len(display_queue)
          /\ ((\E callback_ok \in BOOLEAN : flush(callback_ok))
                 /\ next_picture > frames_decoded) =>
                (display_queue' = display_queue /\ frames_displayed' = frames_displayed
                   /\ frames_decoded' = frames_decoded)
          /\ \A g \in guards' \ guards : \A i \in 1..Len(display_queue') :
                g.picture_index < display_queue'[i].picture_index
          /\ (wpc = "flush" /\ Len(frame_chan') > Len(frame_chan)) =>
                /\ frame_chan' = Append(frame_chan,
                                        MkFrame(Head(flush_frames), seek_applied))
                /\ flush_frames' = Tail(flush_frames)
          /\ (wpc = "send" /\ Len(frame_chan') > Len(frame_chan)) =>
                frame_chan' = Append(frame_chan, wframe[1])]_vars

\* C32 witness: two descriptors were queued, the first has been mapped and
\* the second is still in the queue.
C32_Witness ==
    /\ Len(display_queue) = 1
    /\ display_queue[1].picture_index = 2
    /\ \E g \in guards : g.picture_index = 1

\* C33: after reset() the display queue is empty (has_decoded_frames() is
\* false) and the recorded callback error is cleared, while the decoder
\* handle, the output dimensions and the frame counters are the same as
\* before the call.
C33_ResetClearsQueueOnly ==
    [][reset =>
          /\ ~has_decoded_frames'
          /\ ~last_error'
          /\ decoder' = decoder
          /\ live_decoders' = live_decoders
          /\ resolution' = resolution
          /\ frames_decoded' = frames_decoded
          /\ frames_displayed' = frames_displayed]_vars

\* C33 witness: a reset has discarded a queued descriptor and a recorded
\* error: a picture was displayed, nothing is queued, mapped or recorded,
\* and the decoder is still there.
C33_Witness ==
    /\ frames_displayed = 1
    /\ display_queue = <<>>
    /\ guards = {}
    /\ stale_error
    /\ parse_result = "Err"
    /\ ~last_error
    /\ decoder = 1
    /\ resolution = DisplayArea(1)

\* C34: on session drop the parser is destroyed strictly before the decoder,
\* the display queue is emptied before the decoder is destroyed, and no
\* handle is destroyed twice.
C34_DropDestroysParserFirst ==
    /\ [](\A i, j \in 1..Len(destroyed) : destroyed[i] = destroyed[j] => i = j)
    /\ [][(drop_session /\ destroyed' # destroyed /\ decoder' # decoder) =>
              /\ ~parser
              /\ << "parser", 0 >> \in {destroyed[i] : i \in 1..Len(destroyed)}
              /\ display_queue = <<>>]_vars
    /\ [][(drop_session /\ parser /\ ~parser') =>
              (decoder' = decoder /\ live_decoders' = live_decoders)]_vars
    /\ [](drop_pc = Len(DropOrder) =>
              /\ ~parser
              /\ decoder = 0
              /\ live_decoders = {}
              /\ display_queue = <<>>)

\* C34 witness: a session that had replaced its decoder once and had a
\* descriptor queued was dropped: parser and second decoder were destroyed in
\* that order.
C34_Witness ==
    /\ drop_pc = Len(DropOrder)
    /\ destroyed = << << "decoder", 1 >>, << "parser", 0 >>, << "decoder", 2 >> >>
    /\ frames_displayed >= 1
    /\ guards = {}

\* C35: the session never holds the callback_state lock while it is inside
\* the parser (cuvidParseVideoData of parse_data, flush and reset,
\* cuvidDestroyVideoParser of drop), so a callback that wants the lock finds
\* it free and the session never waits for a lock that is not released.
C35_NoLockAcrossParserCalls ==
    /\ [](InParser => lock # "session")
    /\ [](cb # "none" => (InParser /\ lock # "session"))
    /\ [](lock = "session" => (cb = "none" /\ (method # "none" \/ drop_pc > 0)))
    /\ [](lock = "callback" => cb # "none")
    /\ []((method # "none" /\ Block = "lock") => (lock = "free" /\ cb = "none"))
    /\ [][(drop_session /\ parser /\ ~parser') =>
              (lock = "free" /\ cb = "none")]_vars

\* C35 witness: a display callback holds the lock inside the parser call of
\* parse_data, after an earlier call queued a picture.
C35_Witness ==
    /\ method = "parse_data"
    /\ InParser
    /\ cb = "display"
    /\ lock = "callback"
    /\ Len(display_queue) = 1
    /\ parse_result = "Ok"

\* C36: after the worker applies a Seek, its pending-seek-frame flag is
\* eventually cleared (or the worker ends), in each of the three loops and
\* for a seek to the end of the stream as well.
C36_SeekFrameEventuallyCleared ==
    (wpc = "loop" /\ need_seek_frame) ~> (~need_seek_frame \/ wpc = "done")

\* C37: in every reachable engine state 0 <= current_time_secs <=
\* duration_secs(), where the duration is 0 while no file is loaded.
C37_TimeWithinDuration ==
    0 <= current_time_secs /\ current_time_secs <= duration_secs

\* C38: in every reachable engine state the wall-clock anchor
\* (playback_start_instant) is set if and only if the state is Playing.
C38_AnchorIffPlaying ==
    (playback_start_instant # None) <=> (state = "Playing")

\* C38 witness: the engine is Paused at the end of the open file with no
\* anchor, after a play() that had anchored at 0 and a later return to
\* Paused (pause() or the end of the file).
C38_Witness ==
    /\ state = "Paused"
    /\ file_info # None
    /\ current_time_secs = duration_secs
    /\ playback_start_instant = None
    /\ playback_start_time_secs = 0
    /\ cmds_sent = 2
    /\ seek_sent = 0

\* C39: whenever a worker is running in its loop, the command channel is
\* empty and the worker has not met the end of the stream since its last
\* Play, the worker's playing flag is true exactly when the engine state is
\* Playing.
C39_WorkerPlaysIffEnginePlaying ==
    (/\ decode_thread
     /\ wpc \in {"loop", "send", "flush"}
     /\ cmd_chan = <<>>
     /\ ~eos_since_play) => (playing <=> state = "Playing")

\* C39 witness: the engine is Paused after play() and pause(); the worker
\* has applied both, sent a frame while it played, and sits in its loop, not
\* playing, with the command channel empty.
C39_Witness ==
    /\ state = "Paused"
    /\ decode_thread
    /\ wpc = "loop"
    /\ cmd_chan = <<>>
    /\ cmds_sent = 2
    /\ cmds_applied = 2
    /\ seek_sent = 0
    /\ frame_num >= 1
    /\ ~playing
    /\ ~eos_since_play

\* C40: a map_next_frame that returns InvalidSession because no decoder
\* exists leaves the session as it was: the display queue holds every
\* descriptor it held before the call.
C40_FailedMapKeepsQueue ==
    [][\A map_ok \in BOOLEAN :
          (map_next_frame(map_ok) /\ MapNextFrameResult(map_ok) = "InvalidSession") =>
              display_queue' = display_queue]_vars
====
